---- MODULE Spec2Model ----
(***************************************************************************)
(* State-machine model of the Quill backend (src-tauri/src/main.rs): the   *)
(* shared AppState behind one mutex, the settings.json file, the window    *)
(* title, and the Tauri commands as sequences of steps of concurrently    *)
(* dispatched invocations.                                                 *)
(*                                                                         *)
(* Conventions.                                                            *)
(*   Option<T>   a sequence of length <= 1: None == <<>>, Some(v) == <<v>>. *)
(*   path        a sequence of path components, <<"tmp", "a.md">> standing *)
(*               for the string "/tmp/a.md"; two paths are the same string *)
(*               iff they are the same sequence.                           *)
(*   message     an error string as the sequence of its words.             *)
(*   JSON value  a record [type, val]; a JSON document is [kind, fields].  *)
(***************************************************************************)
EXTENDS Integers, Sequences, FiniteSets, Bags, TLC

\* ------------------------------------------------------------------------
\* Bounds of the model
\* ------------------------------------------------------------------------

\* Commands the front-end invokes over one run of the process; the host
\* dispatcher runs each on a thread of its own, so any of them may overlap.
NumCalls == 2

\* Length of the longest recent_files array found in settings.json at start.
MaxInitLen == 11

\* The add_recent_file requests one behaviour of SpecRecent serves.
MaxAdds == 3

\* Commands the front-end invokes over one behaviour of SpecSettings.
NumSettingsCalls == 2

\* Commands the front-end invokes over one behaviour of SpecLoad.
NumLoadCalls == 1

\* ------------------------------------------------------------------------
\* Program constants
\* ------------------------------------------------------------------------

MAX_RECENT_FILES == 10

MAX_FILE_SIZE == 10 * 1024 * 1024

default_theme == "dark"

default_font_size == 14

default_true == TRUE

default_window_width == 1000

default_window_height == 700

\* ------------------------------------------------------------------------
\* Values
\* ------------------------------------------------------------------------

None == <<>>

Some(v) == <<v>>

IsSome(o) == Len(o) = 1

Unwrap(o) == o[1]

Min(a, b) == IF a < b THEN a ELSE b

\* The paths the front-end and the dialogs hand to the commands.
PathA == <<"tmp", "a.md">>

PathB == <<"home", "b.md">>

Paths == {PathA, PathB}

\* Older entries a settings.json written by an earlier run may hold.
OldPath(i) == <<"old", ToString(i) \o ".md">>

OldList(n) == [i \in 1..n |-> OldPath(i)]

\* ------------------------------------------------------------------------
\* JSON, as serde_json reads and writes it
\* ------------------------------------------------------------------------

JStr(s) == [type |-> "string", val |-> s]

JNum(n) == [type |-> "number", val |-> n]

JBool(b) == [type |-> "bool", val |-> b]

JNull == [type |-> "null", val |-> <<>>]

JArr(a) == [type |-> "array", val |-> a]

\* Option<i32> is written as the number or as null.
JOptNum(o) == IF IsSome(o) THEN JNum(Unwrap(o)) ELSE JNull

JObject(f) == [kind |-> "object", fields |-> f]

\* settings.json absent, or present with content no JSON parser accepts.
FileMissing == [kind |-> "missing", fields |-> <<>>]

FileGarbage == [kind |-> "garbage", fields |-> <<>>]

NoJson == [kind |-> "none", fields |-> <<>>]

\* The numbers a u32 or an i32 field accepts. The model's numbers are all
\* within -(2^31 - 1)..(2^31 - 1), so of u32's bounds the lower one decides
\* and i32's bounds hold of every number.
IsU32(v) == v.type = "number" /\ v.val >= 0

IsI32(v) == v.type = "number" /\ v.val \in (-2147483647)..2147483647

IsStringArray(v) ==
    /\ v.type = "array"
    /\ \A i \in 1..Len(v.val) : v.val[i].type = "string"

Settings_default ==
    [ theme         |-> default_theme,
      font_size     |-> default_font_size,
      word_wrap     |-> default_true,
      window_width  |-> default_window_width,
      window_height |-> default_window_height,
      window_x      |-> None,
      window_y      |-> None,
      recent_files  |-> <<>> ]

\* serde_json::to_string_pretty(settings): every field of the struct, in order.
to_string_pretty(s) ==
    JObject([ theme         |-> JStr(s.theme),
              font_size     |-> JNum(s.font_size),
              word_wrap     |-> JBool(s.word_wrap),
              window_width  |-> JNum(s.window_width),
              window_height |-> JNum(s.window_height),
              window_x      |-> JOptNum(s.window_x),
              window_y      |-> JOptNum(s.window_y),
              recent_files  |-> JArr([i \in 1..Len(s.recent_files) |->
                                         JStr(s.recent_files[i])]) ])

\* One field of the derived Deserialize: a key that is absent takes its serde
\* default, a key that is present must hold a value of the field's type.
Absent(f, key) == key \notin DOMAIN f

IsJString(v) == v.type = "string"

IsJBool(v) == v.type = "bool"

IsOptI32(v) == v.type = "null" \/ IsI32(v)

\* A field that takes its default whatever the file holds.
Field_always_default(f, key, dflt) == dflt

Field(f, key, dflt) == IF key \in DOMAIN f THEN f[key].val ELSE dflt

OptField(f, key) ==
    IF key \in DOMAIN f /\ f[key].type # "null" THEN Some(f[key].val) ELSE None

\* serde_json::from_str::<Settings>(content): [ok, value].
from_str(doc) ==
    LET f == doc.fields
        typed ==
            /\ doc.kind = "object"
            /\ (Absent(f, "theme") \/ IsJString(f["theme"]))
            /\ (Absent(f, "font_size") \/ IsU32(f["font_size"]))
            /\ (Absent(f, "word_wrap") \/ IsJBool(f["word_wrap"]))
            /\ (Absent(f, "window_width") \/ IsU32(f["window_width"]))
            /\ (Absent(f, "window_height") \/ IsU32(f["window_height"]))
            /\ (Absent(f, "window_x") \/ IsOptI32(f["window_x"]))
            /\ (Absent(f, "window_y") \/ IsOptI32(f["window_y"]))
            /\ (Absent(f, "recent_files") \/ IsStringArray(f["recent_files"]))
    IN  IF ~typed
        THEN [ok |-> FALSE, value |-> Settings_default]
        ELSE [ok |-> TRUE,
              value |->
                [ theme         |-> Field(f, "theme", default_theme),
                  font_size     |-> Field(f, "font_size", default_font_size),
                  word_wrap     |-> Field(f, "word_wrap", default_true),
                  window_width  |-> Field(f, "window_width", default_window_width),
                  window_height |-> Field(f, "window_height", default_window_height),
                  window_x      |-> OptField(f, "window_x"),
                  window_y      |-> OptField(f, "window_y"),
                  recent_files  |->
                      IF "recent_files" \in DOMAIN f
                      THEN [i \in 1..Len(f["recent_files"].val) |->
                               f["recent_files"].val[i].val]
                      ELSE <<>> ]]

load_settings(file) ==
    LET parsed == from_str(file)
    IN  IF file.kind # "missing" /\ parsed.ok
        THEN parsed.value
        ELSE Settings_default

\* The fs::write of save_settings: the file holds the new text when the write
\* succeeds and is left as it was when it fails (the Result is dropped).
save_settings_write(file, json, ok) == IF ok THEN json ELSE file

\* ------------------------------------------------------------------------
\* Helpers
\* ------------------------------------------------------------------------

\* Path::file_name().unwrap_or_default(): the last component, nothing for the
\* root and for a path that ends in "..".
file_name(p) ==
    IF p = <<>> \/ p[Len(p)] = ".." THEN "" ELSE p[Len(p)]

display_name(current_file) ==
    IF IsSome(current_file) THEN file_name(Unwrap(current_file)) ELSE "Untitled"

\* A title without the marker of unsaved changes.
title_of_no_marker(s) == "Quill - " \o display_name(s.current_file)

\* The string update_title hands to window.set_title.
title_of(s) ==
    "Quill - " \o display_name(s.current_file) \o (IF s.modified THEN "*" ELSE "")

\* A retain that stops at the first entry it drops.
retain_ne_first_only(list, path) ==
    IF \E i \in 1..Len(list) : list[i] = path
    THEN LET i == CHOOSE k \in 1..Len(list) :
                      /\ list[k] = path
                      /\ \A j \in 1..(k - 1) : list[j] # path
         IN SubSeq(list, 1, i - 1) \o SubSeq(list, i + 1, Len(list))
    ELSE list

\* Vec::retain(|p| p != path)
RECURSIVE retain_ne(_, _)
retain_ne(list, path) ==
    IF list = <<>> THEN <<>>
    ELSE IF Head(list) # path
         THEN <<Head(list)>> \o retain_ne(Tail(list), path)
         ELSE retain_ne(Tail(list), path)

\* Vec::insert(0, path)
insert_front(list, path) == <<path>> \o list

\* Vec::truncate(n)
truncate(list, n) == IF Len(list) > n THEN SubSeq(list, 1, n) ELSE list

\* The list cut to its capacity before the path is put in front.
add_recent_file_impl_truncate_first(list, path) ==
    insert_front(truncate(retain_ne(list, path), MAX_RECENT_FILES), path)

\* The path put in front of the list as it is, entries equal to it kept.
add_recent_file_impl_keep_equal(list, path) ==
    truncate(insert_front(list, path), MAX_RECENT_FILES)

add_recent_file_impl(list, path) ==
    truncate(insert_front(retain_ne(list, path), path), MAX_RECENT_FILES)

\* ------------------------------------------------------------------------
\* File access
\* ------------------------------------------------------------------------

\* What the file system answers for one path at the time of one read_file.
FileStat(exists, meta_ok, len, read_ok) ==
    [exists |-> exists, meta_ok |-> meta_ok, len |-> len, read_ok |-> read_ok]

FileStats ==
    { FileStat(FALSE, FALSE, 0, FALSE),
      FileStat(TRUE, FALSE, 0, FALSE),
      FileStat(TRUE, TRUE, MAX_FILE_SIZE + 1, TRUE),
      FileStat(TRUE, TRUE, MAX_FILE_SIZE, FALSE),
      FileStat(TRUE, TRUE, MAX_FILE_SIZE, TRUE),
      FileStat(TRUE, TRUE, 0, TRUE) }

MsgNotExist == <<"File", "does", "not", "exist">>

MsgOsError == <<"Permission", "denied", "(os", "error", "13)">>

MsgTooLarge(len) ==
    <<"File", "too", "large", "(" \o ToString((len \div 1024) \div 1024) \o "MB).",
      "Maximum", "is", "10MB.">>

Ok == [ok |-> TRUE, error |-> <<>>]

Err(e) == [ok |-> FALSE, error |-> e]

read_file(f) ==
    IF ~f.exists THEN Err(MsgNotExist)
    ELSE IF ~f.meta_ok THEN Err(MsgOsError)
    ELSE IF f.len > MAX_FILE_SIZE THEN Err(MsgTooLarge(f.len))
    ELSE IF ~f.read_ok THEN Err(MsgOsError)
    ELSE Ok

\* str::contains
contains(e, needle) ==
    \E i \in 1..(Len(e) - Len(needle) + 1) :
        SubSeq(e, i, i + Len(needle) - 1) = needle

\* Every error of read_file taken for a missing file.
is_stale_error_any(e) == e # <<>>

is_stale_error(e) == contains(e, <<"does", "not", "exist">>)

\* ------------------------------------------------------------------------
\* State
\* ------------------------------------------------------------------------

VARIABLES
    state,      \* AppState: settings, current_file, modified, startup_file
    disk,       \* the content of settings.json in the config directory
    title,      \* the main window's title, once update_title has set it
    locked,     \* whether an invocation holds SharedState's mutex
    inflight,   \* the bag of invocations in progress, each with its position
    started,    \* invocations dispatched so far
    ret,        \* the value the last completed invocation returned
    last_save,  \* how the last fs::write of save_settings ended
    served,     \* get_startup_file invocations that returned a value so far
    window      \* whether the webview window "main" exists

vars ==
    << state, disk, title, locked, inflight, started, ret, last_save, served,
       window >>

\* An invocation: its command and arguments, its position and its locals.
Call(cmd, pc, path, flag) ==
    [ cmd |-> cmd, pc |-> pc, path |-> path, flag |-> flag,
      err |-> <<>>, json |-> NoJson, arg |-> <<>>, geom |-> None ]

NoRet ==
    [ cmd |-> "", kind |-> "", path |-> None, error |-> <<>>,
      modified |-> FALSE, filename |-> "", value |-> <<>> ]

Response(cmd, kind, path, error) ==
    [ cmd |-> cmd, kind |-> kind, path |-> path, error |-> error,
      modified |-> FALSE, filename |-> "", value |-> <<>> ]

\* A response that carries values of the settings.
ValueResponse(cmd, kind, value) ==
    [Response(cmd, kind, None, <<>>) EXCEPT !.value = value]

\* The settings.json files a start may find: none, an unparsable one, and
\* objects that hold a recent_files array: a full list whose oldest entry is
\* PathA, a list longer than the program writes, and one that names a path
\* twice.
InitLists ==
    { Append(OldList(MAX_RECENT_FILES - 1), PathA), OldList(MaxInitLen),
      <<PathA, PathB, PathA>> }

InitFiles ==
    {FileMissing, FileGarbage}
        \cup { JObject([recent_files |->
                   JArr([i \in 1..Len(l) |-> JStr(l[i])])]) : l \in InitLists }

\* argv[1] of the process: absent, an option, or a file to open.
LaunchArgs ==
    { None, Some([dash |-> TRUE, text |-> <<"--verbose">>]),
      Some([dash |-> FALSE, text |-> PathA]) }

\* std::env::args().nth(1).filter(|a| !a.starts_with('-'))
startup_arg(arg) ==
    IF IsSome(arg) /\ ~Unwrap(arg).dash THEN Some(Unwrap(arg).text) ELSE None

\* The process started with argv[1] = arg on a config directory whose
\* settings.json is file.
InitWith(file, arg) ==
    /\ disk = file
    /\ state = [ settings     |-> load_settings(file),
                 current_file |-> None,
                 modified     |-> FALSE,
                 startup_file |-> startup_arg(arg) ]
    /\ title = None
    /\ locked = FALSE
    /\ inflight = EmptyBag
    /\ started = 0
    /\ ret = NoRet
    /\ last_save = "none"
    /\ served = 0
    /\ window = TRUE

Init == \E file \in InitFiles, arg \in LaunchArgs : InitWith(file, arg)

\* ------------------------------------------------------------------------
\* Steps shared by the handlers
\* ------------------------------------------------------------------------

\* Invocation c moves on as d.
Goto(c, d) == inflight' = (inflight (-) SetToBag({c})) (+) SetToBag({d})

At(c, p) == [c EXCEPT !.pc = p]

\* Invocation c returns r to the front-end.
Return(c, r) ==
    /\ inflight' = inflight (-) SetToBag({c})
    /\ ret' = r

\* update_title(app, state): the title is set if the window exists.
update_title(s) == IF window THEN Some(title_of(s)) ELSE title

\* The requests the front-end sends: the command and its arguments.
Requests ==
    [cmd : {"new_file", "open_file", "save_file", "save_file_as",
            "get_file_state", "clear_recent_files", "get_startup_file"},
     path : {None}, flag : {FALSE}]
    \cup [cmd : {"open_recent_file", "add_recent_file"},
          path : {Some(p) : p \in Paths}, flag : {FALSE}]
    \cup [cmd : {"set_current_file"},
          path : {None} \cup {Some(p) : p \in Paths}, flag : {FALSE}]
    \cup [cmd : {"set_modified"}, path : {None}, flag : BOOLEAN]

\* Where each handler starts: at its first lock, dialog or file access.
Entry(cmd) ==
    CASE cmd = "open_file" -> "open_file.dialog"
      [] cmd = "open_recent_file" -> "open_recent_file.read"
      [] cmd = "save_file_as" -> "save_file_as.dialog"
      [] cmd = "force_close" -> "force_close.window"
      [] OTHER -> cmd \o ".lock"

\* The dispatcher starts the handler of one more invocation, whatever the
\* invocations in progress are doing.
Invoke ==
    /\ started < NumCalls
    /\ started' = started + 1
    /\ \E r \in Requests :
        inflight' = inflight (+)
            SetToBag({Call(r.cmd, Entry(r.cmd), r.path, r.flag)})
    /\ UNCHANGED <<state, disk, title, locked, ret, last_save, served, window>>

\* A lock that excludes nobody.
CanLock_always == TRUE

\* Mutex::lock returns once no invocation holds the lock.
CanLock == ~locked

\* state.lock().unwrap(): the guard is held from here on.
Acquire == CanLock /\ locked' = TRUE

\* The guard is dropped.
Unlock == locked' = FALSE

\* A critical section that blocks on nothing: the guard is taken and dropped
\* within the step.
AcquireRelease == CanLock /\ Unlock

\* The first half of save_settings, up to the serialised text.
Serialise(c, s) == [c EXCEPT !.json = to_string_pretty(s.settings)]

\* The second half of save_settings: the write, whose failure is dropped.
Persist(c) ==
    \E ok \in BOOLEAN :
        /\ disk' = save_settings_write(disk, c.json, ok)
        /\ last_save' = IF ok THEN "ok" ELSE "failed"

\* An open that leaves the modified flag as it was.
set_opened_keep_modified(s, path) ==
    [s EXCEPT !.current_file = Some(path),
              !.settings.recent_files = add_recent_file_impl(@, path)]

\* Lines 198-200, 219-221, 288-290, 464-466: the file becomes the current
\* one, unmodified, and the first of the recent files.
set_opened(s, path) ==
    [s EXCEPT !.current_file = Some(path),
              !.modified = FALSE,
              !.settings.recent_files = add_recent_file_impl(@, path)]

\* ------------------------------------------------------------------------
\* File commands
\* ------------------------------------------------------------------------

new_file_body(c) ==
    /\ c.pc = "new_file.lock"
    /\ AcquireRelease
    /\ state' = [state EXCEPT !.current_file = None, !.modified = FALSE]
    /\ title' = update_title(state')
    /\ Return(c, Response("new_file", "success", None, <<>>))
    /\ UNCHANGED <<disk, started, last_save, served, window>>

\* blocking_pick_file: the user picks a file or closes the dialog.
open_file_dialog(c) ==
    /\ c.pc = "open_file.dialog"
    /\ \/ \E p \in Paths :
            /\ Goto(c, [c EXCEPT !.pc = "open_file.read", !.path = Some(p)])
            /\ UNCHANGED ret
       \/ Return(c, Response("open_file", "cancelled", None, <<>>))
    /\ UNCHANGED <<state, disk, title, locked, started, last_save, served, window>>

open_file_read(c) ==
    /\ c.pc = "open_file.read"
    /\ \E f \in FileStats :
        LET r == read_file(f) IN
        \/ /\ r.ok
           /\ Goto(c, At(c, "open_file.lock"))
           /\ UNCHANGED ret
        \/ /\ ~r.ok
           /\ Return(c, Response("open_file", "error", None, r.error))
    /\ UNCHANGED <<state, disk, title, locked, started, last_save, served, window>>

open_file_body(c) ==
    /\ c.pc = "open_file.lock"
    /\ Acquire
    /\ state' = set_opened(state, Unwrap(c.path))
    /\ Goto(c, Serialise(At(c, "open_file.write"), state'))
    /\ UNCHANGED <<disk, title, started, ret, last_save, served, window>>

open_file_write(c) ==
    /\ c.pc = "open_file.write"
    /\ Persist(c)
    /\ title' = update_title(state)
    /\ Unlock
    /\ Return(c, Response("open_file", "success", c.path, <<>>))
    /\ UNCHANGED <<state, started, served, window>>

open_recent_file_read(c) ==
    /\ c.pc = "open_recent_file.read"
    /\ \E f \in FileStats :
        LET r == read_file(f) IN
        \/ /\ r.ok
           /\ Goto(c, At(c, "open_recent_file.lock"))
           /\ UNCHANGED ret
        \/ /\ ~r.ok
           /\ is_stale_error(r.error)
           /\ Goto(c, [c EXCEPT !.pc = "open_recent_file.stale_lock",
                                !.err = r.error])
           /\ UNCHANGED ret
        \/ /\ ~r.ok
           /\ ~is_stale_error(r.error)
           /\ Return(c, Response("open_recent_file", "error", None, r.error))
    /\ UNCHANGED <<state, disk, title, locked, started, last_save, served, window>>

open_recent_file_body(c) ==
    /\ c.pc = "open_recent_file.lock"
    /\ Acquire
    /\ state' = set_opened(state, Unwrap(c.path))
    /\ Goto(c, Serialise(At(c, "open_recent_file.write"), state'))
    /\ UNCHANGED <<disk, title, started, ret, last_save, served, window>>

open_recent_file_write(c) ==
    /\ c.pc = "open_recent_file.write"
    /\ Persist(c)
    /\ title' = update_title(state)
    /\ Unlock
    /\ Return(c, Response("open_recent_file", "success", c.path, <<>>))
    /\ UNCHANGED <<state, started, served, window>>

\* Lines 229-231: the entry of a file that is gone leaves the list.
open_recent_file_stale_body(c) ==
    /\ c.pc = "open_recent_file.stale_lock"
    /\ Acquire
    /\ state' = [state EXCEPT !.settings.recent_files =
                     retain_ne(@, Unwrap(c.path))]
    /\ Goto(c, Serialise(At(c, "open_recent_file.stale_write"), state'))
    /\ UNCHANGED <<disk, title, started, ret, last_save, served, window>>

\* Lines 232-234: the list is saved and the read's error returned.
open_recent_file_stale_write(c) ==
    /\ c.pc = "open_recent_file.stale_write"
    /\ Persist(c)
    /\ Unlock
    /\ Return(c, Response("open_recent_file", "error", None, c.err))
    /\ UNCHANGED <<state, title, started, served, window>>

\* A save that asks for the destination whether or not there is a current
\* file.
save_file_body_always_prompts(c) ==
    /\ c.pc = "save_file.lock"
    /\ AcquireRelease
    /\ Goto(c, At(c, "save_file_as.dialog"))
    /\ UNCHANGED <<state, disk, title, started, ret, last_save, served, window>>

\* A save_file whose guard lives on into save_to_path and save_file_as.
save_file_body_keeps_guard(c) ==
    /\ c.pc = "save_file.lock"
    /\ Acquire
    /\ \/ /\ IsSome(state.current_file)
          /\ Goto(c, [c EXCEPT !.pc = "save_to_path.fswrite",
                               !.path = state.current_file])
       \/ /\ ~IsSome(state.current_file)
          /\ Goto(c, At(c, "save_file_as.dialog"))
    /\ UNCHANGED <<state, disk, title, started, ret, last_save, served, window>>

\* Line 245: current_file is cloned under a lock that ends with the statement.
save_file_body(c) ==
    /\ c.pc = "save_file.lock"
    /\ AcquireRelease
    /\ \/ /\ IsSome(state.current_file)
          /\ Goto(c, [c EXCEPT !.pc = "save_to_path.fswrite",
                               !.path = state.current_file])
       \/ /\ ~IsSome(state.current_file)
          /\ Goto(c, At(c, "save_file_as.dialog"))
    /\ UNCHANGED <<state, disk, title, started, ret, last_save, served, window>>

\* blocking_save_file: the user names the destination or closes the dialog.
save_file_as_dialog(c) ==
    /\ c.pc = "save_file_as.dialog"
    /\ \/ \E p \in Paths :
            /\ Goto(c, [c EXCEPT !.pc = "save_to_path.fswrite",
                                 !.path = Some(p)])
            /\ UNCHANGED ret
       \/ Return(c, Response(c.cmd, "cancelled", None, <<>>))
    /\ UNCHANGED <<state, disk, title, locked, started, last_save, served, window>>

\* A save that records the destination as the current file before it knows
\* that the write succeeded.
save_to_path_fswrite_commit_first(c) ==
    /\ c.pc = "save_to_path.fswrite"
    /\ state' = [state EXCEPT !.current_file = c.path, !.modified = FALSE]
    /\ \/ /\ Goto(c, At(c, "save_to_path.lock"))
          /\ UNCHANGED ret
       \/ Return(c, Response(c.cmd, "error", None, MsgOsError))
    /\ UNCHANGED <<disk, title, locked, started, last_save, served, window>>

\* Line 285: fs::write(path, content) succeeds or fails with the OS's error.
save_to_path_fswrite(c) ==
    /\ c.pc = "save_to_path.fswrite"
    /\ \/ /\ Goto(c, At(c, "save_to_path.lock"))
          /\ UNCHANGED ret
       \/ Return(c, Response(c.cmd, "error", None, MsgOsError))
    /\ UNCHANGED <<state, disk, title, locked, started, last_save, served, window>>

save_to_path_body(c) ==
    /\ c.pc = "save_to_path.lock"
    /\ Acquire
    /\ state' = set_opened(state, Unwrap(c.path))
    /\ Goto(c, Serialise(At(c, "save_to_path.write"), state'))
    /\ UNCHANGED <<disk, title, started, ret, last_save, served, window>>

save_to_path_write(c) ==
    /\ c.pc = "save_to_path.write"
    /\ Persist(c)
    /\ title' = update_title(state)
    /\ Unlock
    /\ Return(c, Response(c.cmd, "success", c.path, <<>>))
    /\ UNCHANGED <<state, started, served, window>>

\* A set_current_file that resets the modified flag only with a path.
set_current_file_body_keep_modified(c) ==
    /\ c.pc = "set_current_file.lock"
    /\ \/ /\ IsSome(c.path)
          /\ Acquire
          /\ state' = set_opened(state, Unwrap(c.path))
          /\ Goto(c, Serialise(At(c, "set_current_file.write"), state'))
          /\ UNCHANGED <<title, ret>>
       \/ /\ ~IsSome(c.path)
          /\ AcquireRelease
          /\ state' = [state EXCEPT !.current_file = None]
          /\ title' = update_title(state')
          /\ Return(c, Response("set_current_file", "success", None, <<>>))
    /\ UNCHANGED <<disk, started, last_save, served, window>>

set_current_file_body(c) ==
    /\ c.pc = "set_current_file.lock"
    /\ \/ /\ IsSome(c.path)
          /\ Acquire
          /\ state' = set_opened(state, Unwrap(c.path))
          /\ Goto(c, Serialise(At(c, "set_current_file.write"), state'))
          /\ UNCHANGED <<title, ret>>
       \/ /\ ~IsSome(c.path)
          /\ AcquireRelease
          /\ state' = [state EXCEPT !.current_file = None, !.modified = FALSE]
          /\ title' = update_title(state')
          /\ Return(c, Response("set_current_file", "success", None, <<>>))
    /\ UNCHANGED <<disk, started, last_save, served, window>>

set_current_file_write(c) ==
    /\ c.pc = "set_current_file.write"
    /\ Persist(c)
    /\ title' = update_title(state)
    /\ Unlock
    /\ Return(c, Response("set_current_file", "success", c.path, <<>>))
    /\ UNCHANGED <<state, started, served, window>>

\* The JSON get_file_state returns for an AppState.
file_state(s) ==
    [ cmd |-> "get_file_state", kind |-> "state", path |-> s.current_file,
      error |-> <<>>, modified |-> s.modified,
      filename |-> display_name(s.current_file), value |-> <<>> ]

get_file_state_body(c) ==
    /\ c.pc = "get_file_state.lock"
    /\ AcquireRelease
    /\ Return(c, file_state(state))
    /\ UNCHANGED <<state, disk, title, started, last_save, served, window>>

set_modified_body(c) ==
    /\ c.pc = "set_modified.lock"
    /\ AcquireRelease
    /\ state' = [state EXCEPT !.modified = c.flag]
    /\ title' = update_title(state')
    /\ Return(c, Response("set_modified", "unit", None, <<>>))
    /\ UNCHANGED <<disk, started, last_save, served, window>>

\* ------------------------------------------------------------------------
\* Recent files
\* ------------------------------------------------------------------------

add_recent_file_body(c) ==
    /\ c.pc = "add_recent_file.lock"
    /\ Acquire
    /\ state' = [state EXCEPT !.settings.recent_files =
                     add_recent_file_impl(@, Unwrap(c.path))]
    /\ Goto(c, Serialise(At(c, "add_recent_file.write"), state'))
    /\ UNCHANGED <<disk, title, started, ret, last_save, served, window>>

add_recent_file_write(c) ==
    /\ c.pc = "add_recent_file.write"
    /\ Persist(c)
    /\ Unlock
    /\ Return(c, Response("add_recent_file", "unit", None, <<>>))
    /\ UNCHANGED <<state, title, started, served, window>>

clear_recent_files_body(c) ==
    /\ c.pc = "clear_recent_files.lock"
    /\ Acquire
    /\ state' = [state EXCEPT !.settings.recent_files = <<>>]
    /\ Goto(c, Serialise(At(c, "clear_recent_files.write"), state'))
    /\ UNCHANGED <<disk, title, started, ret, last_save, served, window>>

clear_recent_files_write(c) ==
    /\ c.pc = "clear_recent_files.write"
    /\ Persist(c)
    /\ Unlock
    /\ Return(c, Response("clear_recent_files", "unit", None, <<>>))
    /\ UNCHANGED <<state, title, started, served, window>>

\* ------------------------------------------------------------------------
\* App lifecycle commands
\* ------------------------------------------------------------------------

\* Option::clone in place of Option::take: the path stays where it was.
take_startup_clone(s) == s

\* A take that also resets the modified flag.
take_startup_reset_modified(s) ==
    [s EXCEPT !.startup_file = None, !.modified = FALSE]

\* Option::take on startup_file.
take_startup(s) == [s EXCEPT !.startup_file = None]

\* Lines 458-459: the launch-time path is taken under a lock that ends with
\* the statement; without one the command returns nothing.
get_startup_file_take(c) ==
    /\ c.pc = "get_startup_file.lock"
    /\ AcquireRelease
    /\ state' = take_startup(state)
    /\ \/ /\ IsSome(state.startup_file)
          /\ Goto(c, [c EXCEPT !.pc = "get_startup_file.read",
                               !.path = state.startup_file])
          /\ UNCHANGED ret
       \/ /\ ~IsSome(state.startup_file)
          /\ Return(c, Response("get_startup_file", "none", None, <<>>))
    /\ UNCHANGED <<disk, title, started, last_save, served, window>>

\* Lines 461 and 472: a failed read ends the command with nothing; the
\* response keeps the read's error only to tell this return from line 459's.
get_startup_file_read(c) ==
    /\ c.pc = "get_startup_file.read"
    /\ \E f \in FileStats :
        LET r == read_file(f) IN
        \/ /\ r.ok
           /\ Goto(c, At(c, "get_startup_file.lock2"))
           /\ UNCHANGED ret
        \/ /\ ~r.ok
           /\ Return(c, Response("get_startup_file", "none", None, r.error))
    /\ UNCHANGED <<state, disk, title, locked, started, last_save, served, window>>

get_startup_file_body(c) ==
    /\ c.pc = "get_startup_file.lock2"
    /\ Acquire
    /\ state' = set_opened(state, Unwrap(c.path))
    /\ Goto(c, Serialise(At(c, "get_startup_file.write"), state'))
    /\ UNCHANGED <<disk, title, started, ret, last_save, served, window>>

get_startup_file_write(c) ==
    /\ c.pc = "get_startup_file.write"
    /\ Persist(c)
    /\ title' = update_title(state)
    /\ Unlock
    /\ Return(c, Response("get_startup_file", "some", c.path, <<>>))
    /\ served' = served + 1
    /\ UNCHANGED <<state, started, window>>

\* ------------------------------------------------------------------------
\* The system
\* ------------------------------------------------------------------------

\* One step of one invocation in progress.
InProgress == BagToSet(inflight)

Next ==
    \/ Invoke
    \/ \E c \in InProgress : new_file_body(c)
    \/ \E c \in InProgress : open_file_dialog(c)
    \/ \E c \in InProgress : open_file_read(c)
    \/ \E c \in InProgress : open_file_body(c)
    \/ \E c \in InProgress : open_file_write(c)
    \/ \E c \in InProgress : open_recent_file_read(c)
    \/ \E c \in InProgress : open_recent_file_body(c)
    \/ \E c \in InProgress : open_recent_file_write(c)
    \/ \E c \in InProgress : open_recent_file_stale_body(c)
    \/ \E c \in InProgress : open_recent_file_stale_write(c)
    \/ \E c \in InProgress : save_file_body(c)
    \/ \E c \in InProgress : save_file_as_dialog(c)
    \/ \E c \in InProgress : save_to_path_fswrite(c)
    \/ \E c \in InProgress : save_to_path_body(c)
    \/ \E c \in InProgress : save_to_path_write(c)
    \/ \E c \in InProgress : set_current_file_body(c)
    \/ \E c \in InProgress : set_current_file_write(c)
    \/ \E c \in InProgress : get_file_state_body(c)
    \/ \E c \in InProgress : set_modified_body(c)
    \/ \E c \in InProgress : add_recent_file_body(c)
    \/ \E c \in InProgress : add_recent_file_write(c)
    \/ \E c \in InProgress : clear_recent_files_body(c)
    \/ \E c \in InProgress : clear_recent_files_write(c)
    \/ \E c \in InProgress : get_startup_file_take(c)
    \/ \E c \in InProgress : get_startup_file_read(c)
    \/ \E c \in InProgress : get_startup_file_body(c)
    \/ \E c \in InProgress : get_startup_file_write(c)

Spec == Init /\ [][Next]_vars

\* ------------------------------------------------------------------------
\* The recent files under add_recent_file requests served one after another
\* ------------------------------------------------------------------------

\* The paths the requests name: two files outside the lists a start may load
\* or at their ends, and two that the loaded lists hold further up.
RecentPaths == Paths \cup {OldPath(1), OldPath(MAX_RECENT_FILES - 1)}

\* add_recent_file from its lock to its return, no other invocation in
\* progress. The command returns (); ret's path names the request served.
add_recent_file_run(p) ==
    /\ started < MaxAdds
    /\ started' = started + 1
    /\ CanLock
    /\ state' = [state EXCEPT !.settings.recent_files =
                     add_recent_file_impl(@, p)]
    /\ \E ok \in BOOLEAN :
        /\ disk' = save_settings_write(disk, to_string_pretty(state'.settings), ok)
        /\ last_save' = IF ok THEN "ok" ELSE "failed"
    /\ ret' = Response("add_recent_file", "unit", Some(p), <<>>)
    /\ UNCHANGED <<title, locked, inflight, served, window>>

NextRecent == \E p \in RecentPaths : add_recent_file_run(p)

SpecRecent == Init /\ [][NextRecent]_vars

\* ------------------------------------------------------------------------
\* Settings commands
\* ------------------------------------------------------------------------

\* The theme, font size and word wrap of an AppState, as get_settings
\* returns them.
settings_view(s) ==
    [ theme     |-> s.settings.theme,
      font_size |-> s.settings.font_size,
      word_wrap |-> s.settings.word_wrap ]

get_settings_body(c) ==
    /\ c.pc = "get_settings.lock"
    /\ AcquireRelease
    /\ Return(c, ValueResponse("get_settings", "value", settings_view(state)))
    /\ UNCHANGED <<state, disk, title, started, last_save, served, window>>

set_theme_body(c) ==
    /\ c.pc = "set_theme.lock"
    /\ Acquire
    /\ state' = [state EXCEPT !.settings.theme = c.arg.theme]
    /\ Goto(c, Serialise(At(c, "set_theme.write"), state'))
    /\ UNCHANGED <<disk, title, started, ret, last_save, served, window>>

\* A set_theme that reports the failure of its save.
set_theme_write_surfaces_error(c) ==
    /\ c.pc = "set_theme.write"
    /\ \E ok \in BOOLEAN :
          /\ disk' = save_settings_write(disk, c.json, ok)
          /\ last_save' = IF ok THEN "ok" ELSE "failed"
          /\ Return(c, IF ok THEN ValueResponse("set_theme", "success",
                                                [theme |-> c.arg.theme])
                             ELSE Response("set_theme", "error", None,
                                           MsgOsError))
    /\ Unlock
    /\ UNCHANGED <<state, title, started, served, window>>

set_theme_write(c) ==
    /\ c.pc = "set_theme.write"
    /\ Persist(c)
    /\ Unlock
    /\ Return(c, ValueResponse("set_theme", "success",
                               [theme |-> c.arg.theme]))
    /\ UNCHANGED <<state, title, started, served, window>>

\* u32::clamp(min, max)
clamp(v, min, max) == IF v < min THEN min ELSE IF v > max THEN max ELSE v

set_font_size_body(c) ==
    /\ c.pc = "set_font_size.lock"
    /\ Acquire
    /\ state' = [state EXCEPT !.settings.font_size = clamp(c.arg.size, 8, 32)]
    /\ Goto(c, Serialise(At(c, "set_font_size.write"), state'))
    /\ UNCHANGED <<disk, title, started, ret, last_save, served, window>>

set_font_size_write(c) ==
    /\ c.pc = "set_font_size.write"
    /\ Persist(c)
    /\ Unlock
    /\ Return(c, ValueResponse("set_font_size", "success",
                               [font_size |-> state.settings.font_size]))
    /\ UNCHANGED <<state, title, started, served, window>>

set_word_wrap_body(c) ==
    /\ c.pc = "set_word_wrap.lock"
    /\ Acquire
    /\ state' = [state EXCEPT !.settings.word_wrap = c.arg.enabled]
    /\ Goto(c, Serialise(At(c, "set_word_wrap.write"), state'))
    /\ UNCHANGED <<disk, title, started, ret, last_save, served, window>>

set_word_wrap_write(c) ==
    /\ c.pc = "set_word_wrap.write"
    /\ Persist(c)
    /\ Unlock
    /\ Return(c, ValueResponse("set_word_wrap", "success",
                               [word_wrap |-> c.arg.enabled]))
    /\ UNCHANGED <<state, title, started, served, window>>

\* A toggle that leaves the save to a later command.
toggle_word_wrap_body_unsaved(c) ==
    /\ c.pc = "toggle_word_wrap.lock"
    /\ AcquireRelease
    /\ state' = [state EXCEPT !.settings.word_wrap = ~@]
    /\ Return(c, ValueResponse("toggle_word_wrap", "success",
                               [word_wrap |-> state'.settings.word_wrap]))
    /\ UNCHANGED <<disk, title, started, last_save, served, window>>

toggle_word_wrap_body(c) ==
    /\ c.pc = "toggle_word_wrap.lock"
    /\ Acquire
    /\ state' = [state EXCEPT !.settings.word_wrap = ~@]
    /\ Goto(c, Serialise(At(c, "toggle_word_wrap.write"), state'))
    /\ UNCHANGED <<disk, title, started, ret, last_save, served, window>>

toggle_word_wrap_write(c) ==
    /\ c.pc = "toggle_word_wrap.write"
    /\ Persist(c)
    /\ Unlock
    /\ Return(c, ValueResponse("toggle_word_wrap", "success",
                               [word_wrap |-> state.settings.word_wrap]))
    /\ UNCHANGED <<state, title, started, served, window>>

\* ------------------------------------------------------------------------
\* Window state commands
\* ------------------------------------------------------------------------

get_window_size_body(c) ==
    /\ c.pc = "get_window_size.lock"
    /\ AcquireRelease
    /\ Return(c, ValueResponse("get_window_size", "value",
                               [ width  |-> state.settings.window_width,
                                 height |-> state.settings.window_height ]))
    /\ UNCHANGED <<state, disk, title, started, last_save, served, window>>

save_window_size_body(c) ==
    /\ c.pc = "save_window_size.lock"
    /\ Acquire
    /\ state' = [state EXCEPT !.settings.window_width = c.arg.width,
                              !.settings.window_height = c.arg.height]
    /\ Goto(c, Serialise(At(c, "save_window_size.write"), state'))
    /\ UNCHANGED <<disk, title, started, ret, last_save, served, window>>

save_window_size_write(c) ==
    /\ c.pc = "save_window_size.write"
    /\ Persist(c)
    /\ Unlock
    /\ Return(c, Response("save_window_size", "unit", None, <<>>))
    /\ UNCHANGED <<state, title, started, served, window>>

get_window_position_body(c) ==
    /\ c.pc = "get_window_position.lock"
    /\ AcquireRelease
    /\ Return(c, ValueResponse("get_window_position", "value",
                               [ x |-> state.settings.window_x,
                                 y |-> state.settings.window_y ]))
    /\ UNCHANGED <<state, disk, title, started, last_save, served, window>>

save_window_position_body(c) ==
    /\ c.pc = "save_window_position.lock"
    /\ Acquire
    /\ state' = [state EXCEPT !.settings.window_x = Some(c.arg.x),
                              !.settings.window_y = Some(c.arg.y)]
    /\ Goto(c, Serialise(At(c, "save_window_position.write"), state'))
    /\ UNCHANGED <<disk, title, started, ret, last_save, served, window>>

save_window_position_write(c) ==
    /\ c.pc = "save_window_position.write"
    /\ Persist(c)
    /\ Unlock
    /\ Return(c, Response("save_window_position", "unit", None, <<>>))
    /\ UNCHANGED <<state, title, started, served, window>>

get_recent_files_body(c) ==
    /\ c.pc = "get_recent_files.lock"
    /\ AcquireRelease
    /\ Return(c, ValueResponse("get_recent_files", "value",
                               [recent_files |-> state.settings.recent_files]))
    /\ UNCHANGED <<state, disk, title, started, last_save, served, window>>

\* ------------------------------------------------------------------------
\* force_close
\* ------------------------------------------------------------------------

\* What outer_size() and outer_position() answer for the window at the time
\* of one force_close: a size and a position, or an error of either.
Geometries ==
    { Some([width |-> 1280, height |-> 720, x |-> -8, y |-> 0]),
      Some([width |-> 640, height |-> 480, x |-> 100, y |-> 50]),
      None }

\* Lines 479-480: without the window the command ends; with it, the geometry
\* is read, and the save is skipped when it cannot be.
force_close_window(c) ==
    /\ c.pc = "force_close.window"
    /\ \/ /\ ~window
          /\ Return(c, Response("force_close", "unit", None, <<>>))
       \/ /\ window
          /\ \E g \in Geometries :
                IF IsSome(g)
                THEN Goto(c, [c EXCEPT !.pc = "force_close.lock", !.geom = g])
                ELSE Goto(c, At(c, "force_close.destroy"))
          /\ UNCHANGED ret
    /\ UNCHANGED <<state, disk, title, locked, started, last_save, served, window>>

\* Lines 481-486.
force_close_body(c) ==
    /\ c.pc = "force_close.lock"
    /\ Acquire
    /\ state' = [state EXCEPT
                    !.settings.window_width = Unwrap(c.geom).width,
                    !.settings.window_height = Unwrap(c.geom).height,
                    !.settings.window_x = Some(Unwrap(c.geom).x),
                    !.settings.window_y = Some(Unwrap(c.geom).y)]
    /\ Goto(c, Serialise(At(c, "force_close.write"), state'))
    /\ UNCHANGED <<disk, title, started, ret, last_save, served, window>>

\* A force_close whose window is gone by the time the save ends.
force_close_write_destroy_first(c) ==
    /\ c.pc = "force_close.write"
    /\ window' = FALSE
    /\ Persist(c)
    /\ Unlock
    /\ Goto(c, At(c, "force_close.destroy"))
    /\ UNCHANGED <<state, title, started, ret, served>>

\* Lines 487-488: the save, and the guard dropped at the end of the block.
force_close_write(c) ==
    /\ c.pc = "force_close.write"
    /\ Persist(c)
    /\ Unlock
    /\ Goto(c, At(c, "force_close.destroy"))
    /\ UNCHANGED <<state, title, started, ret, served, window>>

\* Line 490: window.destroy(); its result is dropped.
force_close_destroy(c) ==
    /\ c.pc = "force_close.destroy"
    /\ window' = FALSE
    /\ Return(c, Response("force_close", "unit", None, <<>>))
    /\ UNCHANGED <<state, disk, title, locked, started, last_save, served>>

\* ------------------------------------------------------------------------
\* The settings under the commands that read and write them
\* ------------------------------------------------------------------------

\* Settings other than the defaults, as an earlier run may have saved them.
Settings_saved ==
    [ theme         |-> "light",
      font_size     |-> 20,
      word_wrap     |-> FALSE,
      window_width  |-> 800,
      window_height |-> 600,
      window_x      |-> Some(30),
      window_y      |-> Some(40),
      recent_files  |-> <<PathB>> ]

\* The settings.json files a start of SpecSettings may find: none, one the
\* program has written, and one that holds a font size the program does not
\* write.
SettingsFiles ==
    { FileMissing, to_string_pretty(Settings_saved),
      JObject([font_size |-> JNum(100)]) }

InitSettings == \E file \in SettingsFiles : InitWith(file, None)

SettingsRequests ==
    [cmd : {"get_settings", "toggle_word_wrap", "get_window_size",
            "get_window_position", "get_recent_files", "clear_recent_files",
            "force_close"},
     path : {None}, arg : {<<>>}]
    \cup [cmd : {"set_theme"}, path : {None}, arg : {[theme |-> "light"]}]
    \cup [cmd : {"set_font_size"}, path : {None},
          arg : {[size |-> n] : n \in {0, 8, 32, 100}}]
    \cup [cmd : {"set_word_wrap"}, path : {None}, arg : {[enabled |-> FALSE]}]
    \cup [cmd : {"save_window_size"}, path : {None},
          arg : {[width |-> 1024, height |-> 768]}]
    \cup [cmd : {"save_window_position"}, path : {None},
          arg : {[x |-> -4, y |-> 25]}]
    \cup [cmd : {"add_recent_file"}, path : {Some(PathA)}, arg : {<<>>}]

InvokeSettings ==
    /\ started < NumSettingsCalls
    /\ started' = started + 1
    /\ \E r \in SettingsRequests :
        inflight' = inflight (+)
            SetToBag({[Call(r.cmd, Entry(r.cmd), r.path, FALSE)
                          EXCEPT !.arg = r.arg]})
    /\ UNCHANGED <<state, disk, title, locked, ret, last_save, served, window>>

NextSettings ==
    \/ InvokeSettings
    \/ \E c \in InProgress : get_settings_body(c)
    \/ \E c \in InProgress : set_theme_body(c)
    \/ \E c \in InProgress : set_theme_write(c)
    \/ \E c \in InProgress : set_font_size_body(c)
    \/ \E c \in InProgress : set_font_size_write(c)
    \/ \E c \in InProgress : set_word_wrap_body(c)
    \/ \E c \in InProgress : set_word_wrap_write(c)
    \/ \E c \in InProgress : toggle_word_wrap_body(c)
    \/ \E c \in InProgress : toggle_word_wrap_write(c)
    \/ \E c \in InProgress : get_window_size_body(c)
    \/ \E c \in InProgress : save_window_size_body(c)
    \/ \E c \in InProgress : save_window_size_write(c)
    \/ \E c \in InProgress : get_window_position_body(c)
    \/ \E c \in InProgress : save_window_position_body(c)
    \/ \E c \in InProgress : save_window_position_write(c)
    \/ \E c \in InProgress : get_recent_files_body(c)
    \/ \E c \in InProgress : add_recent_file_body(c)
    \/ \E c \in InProgress : add_recent_file_write(c)
    \/ \E c \in InProgress : clear_recent_files_body(c)
    \/ \E c \in InProgress : clear_recent_files_write(c)
    \/ \E c \in InProgress : force_close_window(c)
    \/ \E c \in InProgress : force_close_body(c)
    \/ \E c \in InProgress : force_close_write(c)
    \/ \E c \in InProgress : force_close_destroy(c)

SpecSettings == InitSettings /\ [][NextSettings]_vars

\* ------------------------------------------------------------------------
\* The settings a start loads, under the commands that return them
\* ------------------------------------------------------------------------

\* The keys of settings.json.
Keys ==
    { "theme", "font_size", "word_wrap", "window_width", "window_height",
      "window_x", "window_y", "recent_files" }

\* For every key a value of the field's type other than the field's default,
\* and the JSON that holds it.
ValidSetting ==
    [ theme         |-> "light",
      font_size     |-> 20,
      word_wrap     |-> FALSE,
      window_width  |-> 800,
      window_height |-> 600,
      window_x      |-> Some(-30),
      window_y      |-> Some(40),
      recent_files  |-> <<PathA, PathB>> ]

ValidValue(k) == to_string_pretty(ValidSetting).fields[k]

\* For every key a JSON value the field's type does not accept.
InvalidValue(k) ==
    CASE k = "theme" -> JNum(1)
      [] k = "font_size" -> JStr("large")
      [] k = "word_wrap" -> JStr("yes")
      [] k = "window_width" -> JNum(-800)
      [] k = "window_height" -> JNull
      [] k = "window_x" -> JStr("left")
      [] k = "window_y" -> JBool(TRUE)
      [] k = "recent_files" -> JArr(<<JStr(PathA), JNum(2)>>)

\* The JSON object that holds valid values for the keys in present.
ValidFile(present) == JObject([k \in present |-> ValidValue(k)])

\* The JSON object that holds an invalid value for key bad and valid values
\* for the keys in present.
PartlyInvalidFile(bad, present) ==
    JObject([k \in present \cup {bad} |->
                IF k = bad THEN InvalidValue(k) ELSE ValidValue(k)])

\* A JSON object with valid values and a key the program does not know, and
\* one whose position is written as null.
OtherValidFiles ==
    { JObject([theme |-> JStr("light"), zoom |-> JNum(2)]),
      JObject([window_x |-> JNull, window_y |-> JNull]) }

LoadFiles ==
    {FileMissing, FileGarbage}
        \cup {ValidFile(present) : present \in SUBSET Keys}
        \cup {PartlyInvalidFile(bad, present) :
                 bad \in Keys, present \in SUBSET Keys}
        \cup OtherValidFiles

InitLoad == \E file \in LoadFiles : InitWith(file, None)

LoadRequests ==
    [cmd : {"get_settings", "get_window_size", "get_window_position",
            "get_recent_files"},
     path : {None}, arg : {<<>>}]

InvokeLoad ==
    /\ started < NumLoadCalls
    /\ started' = started + 1
    /\ \E r \in LoadRequests :
        inflight' = inflight (+)
            SetToBag({Call(r.cmd, Entry(r.cmd), r.path, FALSE)})
    /\ UNCHANGED <<state, disk, title, locked, ret, last_save, served, window>>

NextLoad ==
    \/ InvokeLoad
    \/ \E c \in InProgress : get_settings_body(c)
    \/ \E c \in InProgress : get_window_size_body(c)
    \/ \E c \in InProgress : get_window_position_body(c)
    \/ \E c \in InProgress : get_recent_files_body(c)

SpecLoad == InitLoad /\ [][NextLoad]_vars

\* ------------------------------------------------------------------------
\* Vocabulary of the properties
\* ------------------------------------------------------------------------

recent_files == state.settings.recent_files

Range(s) == {s[i] : i \in 1..Len(s)}

Occurrences(s, x) == Cardinality({i \in 1..Len(s) : s[i] = x})

\* The entries of list other than path, in the order list has them.
Without(list, path) ==
    LET other(q) == q # path IN SelectSeq(list, other)

\* The recent files settings.json holds, as the next start would load them.
persisted_recent(file) == load_settings(file).recent_files

\* Invocation c has returned in this step.
Returned(c) == inflight' = inflight (-) SetToBag({c})

\* Invocation c has moved from position from to position to in this step.
Moved(c, from, to) ==
    /\ c.pc = from
    /\ \E d \in BagToSet(inflight') :
        /\ d.pc = to
        /\ inflight' = (inflight (-) SetToBag({c})) (+) SetToBag({d})

\* The positions at which a command puts its path in front of the list, and
\* the positions it reaches by doing so.
InsertAt ==
    { <<"open_file.lock", "open_file.write">>,
      <<"open_recent_file.lock", "open_recent_file.write">>,
      <<"save_to_path.lock", "save_to_path.write">>,
      <<"set_current_file.lock", "set_current_file.write">>,
      <<"add_recent_file.lock", "add_recent_file.write">>,
      <<"get_startup_file.lock2", "get_startup_file.write">> }

Inserted(c) == \E e \in InsertAt : Moved(c, e[1], e[2])

\* The errors read_file has for a file that exists.
ErrorsOfExisting ==
    {read_file(f).error : f \in {g \in FileStats : g.exists /\ ~read_file(g).ok}}

\* ------------------------------------------------------------------------
\* C1
\* ------------------------------------------------------------------------

\* C1: in every reachable state, the state after load_settings included, the
\* recent-files list names no path twice and has at most MAX_RECENT_FILES
\* entries.
C1_RecentFilesUniqueAndBounded ==
    /\ \A i, j \in 1..Len(recent_files) :
           i # j => recent_files[i] # recent_files[j]
    /\ Len(recent_files) <= MAX_RECENT_FILES

\* ------------------------------------------------------------------------
\* C2
\* ------------------------------------------------------------------------

\* C2: every add_recent_file of a path p changes the list L into the first
\* MAX_RECENT_FILES entries of p followed by the entries of L other than p in
\* the order L has them: p is first, the entries after it are the leading
\* entries of L without p, and what is dropped is the tail, the entries
\* inserted longest ago.
C2_AddRecentIsFirstTen ==
    [][ LET p == Unwrap(ret'.path)
            rest == Without(recent_files, p)
            result == state'.settings.recent_files
        IN /\ Len(result) = Min(MAX_RECENT_FILES, Len(rest) + 1)
           /\ result[1] = p
           /\ \A i \in 2..Len(result) : result[i] = rest[i - 1]
      ]_vars

\* An add has pushed the oldest entry of a full list out: PathB is in front of
\* the nine entries that were ahead of the last one.
C2_Witness ==
    /\ ret.cmd = "add_recent_file"
    /\ ret.path = Some(PathB)
    /\ recent_files = <<PathB>> \o OldList(MAX_RECENT_FILES - 1)

\* ------------------------------------------------------------------------
\* C3
\* ------------------------------------------------------------------------

\* C3: an add_recent_file of the path the add_recent_file just before it
\* named leaves the list as the first add left it, and that list has the path
\* exactly once, in front.
C3_AddTwiceIsAddOnce ==
    [][ (ret.cmd = "add_recent_file" /\ ret'.path = ret.path) =>
            LET p == Unwrap(ret'.path)
            IN /\ state'.settings.recent_files = recent_files
               /\ recent_files[1] = p
               /\ Occurrences(state'.settings.recent_files, p) = 1
      ]_vars

\* Two adds, both of PathA since nothing else is in the list, have been served
\* from the list that named PathA twice and PathB between.
C3_Witness ==
    /\ started = 2
    /\ ret.cmd = "add_recent_file"
    /\ ret.path = Some(PathA)
    /\ recent_files = <<PathA, PathB>>
    /\ last_save = "failed"
    /\ persisted_recent(disk) = <<PathA, PathB>>

\* ------------------------------------------------------------------------
\* C4
\* ------------------------------------------------------------------------

\* C4: when open_file or open_recent_file returns after a successful read,
\* current_file is the path, modified is false, the path is the first of
\* recent_files, save_settings has run on these settings (settings.json holds
\* them if its write succeeded), and get_file_state reports modified = false
\* and the path's last component as filename; and what get_file_state returns
\* is always what the state holds.
C4_OpenPostcondition ==
    [][ \A c \in InProgress :
          /\ (c.pc \in {"open_file.write", "open_recent_file.write"}
                /\ Returned(c)) =>
                LET p == Unwrap(c.path) IN
                /\ ret'.kind = "success"
                /\ ret'.path = Some(p)
                /\ state'.current_file = Some(p)
                /\ state'.modified = FALSE
                /\ Len(state'.settings.recent_files) >= 1
                /\ state'.settings.recent_files[1] = p
                /\ last_save' \in {"ok", "failed"}
                /\ last_save' = "ok" => disk' = to_string_pretty(state'.settings)
                /\ file_state(state').modified = FALSE
                /\ file_state(state').filename = p[Len(p)]
          /\ (c.pc = "get_file_state.lock" /\ Returned(c)) =>
                /\ ret'.kind = "state"
                /\ ret'.path = state.current_file
                /\ ret'.modified = state.modified
                /\ IsSome(state.current_file) =>
                       ret'.filename =
                           Unwrap(state.current_file)[Len(Unwrap(state.current_file))]
      ]_vars

\* open_recent_file has returned success for a path, and settings.json holds
\* the settings that name it first.
C4_Witness ==
    /\ ret.cmd = "open_recent_file"
    /\ ret.kind = "success"
    /\ state.current_file = ret.path
    /\ ~state.modified
    /\ recent_files[1] = Unwrap(ret.path)
    /\ last_save = "ok"
    /\ disk = to_string_pretty(state.settings)

\* ------------------------------------------------------------------------
\* C5
\* ------------------------------------------------------------------------

\* C5: an open whose read fails returns success = false with read_file's
\* error and changes neither the state nor settings.json, except that
\* open_recent_file, on the error of a file that does not exist and on no
\* other, drops the path from recent_files and saves the settings; current_file,
\* modified and every other setting stay as they were then too.
C5_FailedOpenKeepsState ==
    [][ \A c \in InProgress :
          /\ (c.pc = "open_file.read" /\ Returned(c)) =>
                /\ ret'.kind = "error"
                /\ ret'.error \in ErrorsOfExisting \cup {MsgNotExist}
                /\ UNCHANGED <<state, disk>>
          /\ (c.pc = "open_recent_file.read" /\ Returned(c)) =>
                /\ ret'.kind = "error"
                /\ ret'.error \in ErrorsOfExisting
                /\ UNCHANGED <<state, disk>>
          /\ Moved(c, "open_recent_file.read", "open_recent_file.stale_lock")
                => UNCHANGED <<state, disk>>
          /\ Moved(c, "open_recent_file.stale_lock",
                      "open_recent_file.stale_write") =>
                /\ c.err = MsgNotExist
                /\ state' = [state EXCEPT !.settings.recent_files =
                                 Without(@, Unwrap(c.path))]
                /\ disk' = disk
          /\ (c.pc = "open_recent_file.stale_write" /\ Returned(c)) =>
                /\ ret'.kind = "error"
                /\ ret'.error = MsgNotExist
                /\ state' = state
                /\ disk' \in {disk, to_string_pretty(state.settings)}
      ]_vars

\* open_file has returned the error of a file that is too large.
C5_Witness ==
    /\ ret.cmd = "open_file"
    /\ ret.kind = "error"
    /\ ret.error = MsgTooLarge(MAX_FILE_SIZE + 1)

\* ------------------------------------------------------------------------
\* C6
\* ------------------------------------------------------------------------

\* C6: read_file reports 'does not exist' for the files that do not exist and
\* for no others; open_recent_file then takes every occurrence of the path
\* out of recent_files, keeps the other entries in their order, returns
\* success = false with that error, and settings.json, if its write succeeded,
\* holds the same list; for every other read error it returns with the list
\* and settings.json as they were.
C6_StaleEntryRemoved ==
    [][ /\ \A f \in FileStats :
              ~f.exists <=> (~read_file(f).ok /\ is_stale_error(read_file(f).error))
        /\ \A c \in InProgress :
              LET p == Unwrap(c.path) IN
              /\ Moved(c, "open_recent_file.stale_lock",
                          "open_recent_file.stale_write") =>
                    /\ state'.settings.recent_files = Without(recent_files, p)
                    /\ p \notin Range(state'.settings.recent_files)
              /\ (c.pc = "open_recent_file.stale_write" /\ Returned(c)) =>
                    /\ ret'.kind = "error"
                    /\ contains(ret'.error, <<"does", "not", "exist">>)
                    /\ p \notin Range(state'.settings.recent_files)
                    /\ state'.settings.recent_files = recent_files
                    /\ last_save' = "ok" =>
                           persisted_recent(disk') = state'.settings.recent_files
              /\ (c.pc = "open_recent_file.read" /\ Returned(c)) =>
                    /\ ret'.kind = "error"
                    /\ ~contains(ret'.error, <<"does", "not", "exist">>)
                    /\ state'.settings.recent_files = recent_files
                    /\ disk' = disk
      ]_vars

\* open_recent_file has returned 'does not exist' for PathA, and of the list
\* that named PathA twice and PathB between, PathB is what is left in memory
\* and in settings.json.
C6_Witness ==
    /\ ret.cmd = "open_recent_file"
    /\ ret.kind = "error"
    /\ ret.error = MsgNotExist
    /\ recent_files = <<PathB>>
    /\ last_save = "ok"
    /\ persisted_recent(disk) = <<PathB>>

\* ------------------------------------------------------------------------
\* C7
\* ------------------------------------------------------------------------

\* C7: no step of save_file or save_file_as up to and including a failed write
\* of the content changes current_file, modified, recent_files or
\* settings.json, and the failed write returns success = false with the error
\* of the operating system.
C7_FailedSaveKeepsState ==
    [][ \A c \in InProgress :
          /\ (c.pc = "save_to_path.fswrite" /\ Returned(c)) =>
                /\ ret'.cmd \in {"save_file", "save_file_as"}
                /\ ret'.kind = "error"
                /\ ret'.error = MsgOsError
                /\ UNCHANGED <<state, disk>>
          /\ ( \/ Moved(c, "save_file.lock", "save_to_path.fswrite")
               \/ Moved(c, "save_file.lock", "save_file_as.dialog")
               \/ Moved(c, "save_file_as.dialog", "save_to_path.fswrite")
               \/ Moved(c, "save_to_path.fswrite", "save_to_path.lock") )
                => UNCHANGED <<state, disk>>
      ]_vars

\* save_file has returned the error of a failed write.
C7_Witness ==
    /\ ret.cmd = "save_file"
    /\ ret.kind = "error"
    /\ ret.error = MsgOsError

\* ------------------------------------------------------------------------
\* C8
\* ------------------------------------------------------------------------

\* C8: at most one get_startup_file returns a value; a get_startup_file that
\* has passed its take leaves startup_file empty, and no step of any command
\* fills an empty startup_file.
C8_StartupFileServedOnce ==
    [][ /\ served' <= 1
        /\ ~IsSome(state.startup_file) => ~IsSome(state'.startup_file)
        /\ \A c \in InProgress :
              /\ (c.pc = "get_startup_file.lock"
                    /\ (Returned(c) \/ Moved(c, "get_startup_file.lock",
                                                "get_startup_file.read")))
                    => ~IsSome(state'.startup_file)
              /\ (c.cmd = "get_startup_file" /\ Returned(c)) =>
                    /\ ret'.kind \in {"some", "none"}
                    /\ ret'.kind = "some" <=> c.pc = "get_startup_file.write"
                    /\ ret'.kind = "some" => served' = served + 1
      ]_vars

\* A get_startup_file has returned nothing though the process was started on
\* a file: another get_startup_file has returned the file.
C8_Witness ==
    /\ served = 1
    /\ ret.cmd = "get_startup_file"
    /\ ret.kind = "none"
    /\ ret.error = <<>>
    /\ inflight = EmptyBag

\* ------------------------------------------------------------------------
\* C9
\* ------------------------------------------------------------------------

\* C9 as stated: when get_startup_file returns because the launch-time file
\* cannot be read, startup_file holds the path it held before the call, as
\* current_file, modified and the settings hold what they held.
C9_FailedStartupReadKeepsState ==
    [][ \A c \in InProgress :
          (c.pc = "get_startup_file.read" /\ Returned(c)) =>
              /\ ret'.kind = "none"
              /\ state'.startup_file = c.path
              /\ state'.current_file = state.current_file
              /\ state'.modified = state.modified
              /\ state'.settings = state.settings
              /\ disk' = disk
      ]_vars

\* C9: a get_startup_file whose read fails changes the state in one way only:
\* its take, before the read, has emptied startup_file. The take changes
\* nothing else, the failed read returns nothing and changes nothing, and
\* startup_file is empty on return.
C9_FailedStartupReadOnlyConsumes ==
    [][ \A c \in InProgress :
          /\ Moved(c, "get_startup_file.lock", "get_startup_file.read") =>
                /\ IsSome(state.startup_file)
                /\ state' = [state EXCEPT !.startup_file = None]
                /\ UNCHANGED <<disk, title, last_save>>
          /\ (c.pc = "get_startup_file.read" /\ Returned(c)) =>
                /\ ret'.kind = "none"
                /\ state' = state
                /\ ~IsSome(state'.startup_file)
                /\ UNCHANGED <<disk, title, last_save, served>>
      ]_vars

\* get_startup_file has returned nothing because the file it took could not
\* be read; startup_file is empty and no file is current.
C9_Witness ==
    /\ ret.cmd = "get_startup_file"
    /\ ret.kind = "none"
    /\ ret.error = MsgNotExist
    /\ ~IsSome(state.startup_file)
    /\ ~IsSome(state.current_file)

\* ------------------------------------------------------------------------
\* C10
\* ------------------------------------------------------------------------

\* C10: in every interleaving, a command that inserts a path puts it first in
\* recent_files and keeps every other entry that has room; an entry leaves the
\* list only through clear_recent_files, through open_recent_file's removal of
\* that very path, or because an insertion pushed it beyond the capacity; and
\* whenever no invocation holds the lock and the last write of settings.json
\* succeeded, settings.json holds the settings in memory.
C10_NoLostRecentUpdate ==
    /\ [](  (~locked /\ last_save = "ok") =>
               /\ disk = to_string_pretty(state.settings)
               /\ persisted_recent(disk) = recent_files )
    /\ [][ /\ \A c \in InProgress :
                Inserted(c) =>
                    LET p == Unwrap(c.path)
                        rest == Without(recent_files, p)
                    IN /\ state'.settings.recent_files[1] = p
                       /\ \A i \in 1..Len(rest) :
                              i < MAX_RECENT_FILES =>
                                  state'.settings.recent_files[i + 1] = rest[i]
          /\ state'.settings.recent_files # recent_files =>
              \A q \in Range(recent_files) :
                q \notin Range(state'.settings.recent_files) =>
                    \E c \in InProgress :
                        \/ Moved(c, "clear_recent_files.lock",
                                    "clear_recent_files.write")
                        \/ /\ Moved(c, "open_recent_file.stale_lock",
                                       "open_recent_file.stale_write")
                           /\ c.path = Some(q)
                        \/ /\ Inserted(c)
                           /\ LET rest == Without(recent_files, Unwrap(c.path))
                              IN \A i \in 1..Len(rest) :
                                     rest[i] = q => i >= MAX_RECENT_FILES
        ]_vars

\* Two insertions of different paths overlap: add_recent_file has put its
\* path first and holds the lock for its save while a save of the other path,
\* its content written, waits for the lock.
C10_Witness ==
    \E c, d \in InProgress :
        /\ c.pc = "add_recent_file.write"
        /\ d.pc = "save_to_path.lock"
        /\ c.path # d.path
        /\ locked
        /\ recent_files[1] = Unwrap(c.path)

\* ------------------------------------------------------------------------
\* C11
\* ------------------------------------------------------------------------

\* C11, in what it requires of save_file: in a sequential execution save_file
\* commits its path (lines 287-290) to the state it read current_file from
\* (line 245), so current_file is then that path, which save_file saved to
\* without a prompt, or unset, which made it prompt. If every command acts as
\* one atomic operation, this holds of every save_file in every interleaving.
C11_CommandsAreAtomic ==
    [][ \A c \in InProgress :
          (c.cmd = "save_file"
             /\ Moved(c, "save_to_path.lock", "save_to_path.write")) =>
              state.current_file \in {None, c.path}
      ]_vars

\* ------------------------------------------------------------------------
\* C12
\* ------------------------------------------------------------------------

\* C12: whenever no command is in progress and the last write of
\* settings.json succeeded, settings.json holds the settings in memory; the
\* settings change only in a step that takes the lock, and the step that
\* drops that lock is the command's own write of settings.json, which, if it
\* succeeds, leaves the file equal to the settings in memory.
C12_WriteThrough ==
    /\ []( (inflight = EmptyBag /\ last_save = "ok") =>
               /\ disk = to_string_pretty(state.settings)
               /\ load_settings(disk) = state.settings )
    /\ [][ /\ state'.settings # state.settings => (~locked /\ locked')
           /\ (locked /\ ~locked') =>
                 /\ state' = state
                 /\ last_save' \in {"ok", "failed"}
                 /\ last_save' = "ok" => disk' = to_string_pretty(state'.settings)
         ]_vars

\* save_window_position has returned after a successful write, nothing is in
\* progress, and settings.json holds the position.
C12_Witness ==
    /\ inflight = EmptyBag
    /\ ret.cmd = "save_window_position"
    /\ last_save = "ok"
    /\ state.settings.window_x = Some(-4)
    /\ load_settings(disk).window_x = Some(-4)

\* ------------------------------------------------------------------------
\* C13
\* ------------------------------------------------------------------------

\* C13: in every reachable state, the state after load_settings included, the
\* stored font_size is at least 8 and at most 32.
C13_FontSizeInRange ==
    /\ state.settings.font_size >= 8
    /\ state.settings.font_size <= 32

\* ------------------------------------------------------------------------
\* C14
\* ------------------------------------------------------------------------

\* The defaults the documentation gives.
DocumentedDefaults ==
    [ theme         |-> "dark",
      font_size     |-> 14,
      word_wrap     |-> TRUE,
      window_width  |-> 1000,
      window_height |-> 700,
      window_x      |-> None,
      window_y      |-> None,
      recent_files  |-> <<>> ]

\* C14: the settings loaded from a JSON object that holds valid values for
\* some of the keys are those values for the keys it holds and the documented
\* defaults for the others (a null position is no position, a key the program
\* does not know is passed over); from a file that is missing or does not
\* parse they are the documented defaults; and load_settings returns settings
\* for every file.
C14_LoadKeysAndDefaults ==
    /\ DOMAIN state.settings = Keys
    /\ disk \in {FileMissing, FileGarbage} => state.settings = DocumentedDefaults
    /\ (disk.kind = "object" /\ DOMAIN disk.fields \subseteq Keys) =>
          LET present == DOMAIN disk.fields IN
          disk = ValidFile(present) =>
              \A k \in Keys :
                  state.settings[k] =
                      IF k \in present THEN ValidSetting[k]
                                       ELSE DocumentedDefaults[k]
    /\ disk = JObject([theme |-> JStr("light"), zoom |-> JNum(2)]) =>
          state.settings = [DocumentedDefaults EXCEPT !.theme = "light"]
    /\ disk = JObject([window_x |-> JNull, window_y |-> JNull]) =>
          state.settings = DocumentedDefaults

\* The start found a theme and a window size in settings.json; get_settings
\* has returned that theme with the default font size and word wrap.
C14_Witness ==
    /\ disk = ValidFile({"theme", "window_width", "window_height"})
    /\ ret.cmd = "get_settings"
    /\ ret.value = [theme |-> "light", font_size |-> 14, word_wrap |-> TRUE]
    /\ state.settings.window_width = 800
    /\ state.settings.window_x = None

\* ------------------------------------------------------------------------
\* C15
\* ------------------------------------------------------------------------

\* C15: the settings loaded from a JSON object in which one key holds an
\* invalid value and other keys hold valid ones are the default for the
\* invalid key, the file's values for the valid keys and the defaults for the
\* absent ones.
C15_DefaultsPerField ==
    \A bad \in Keys : \A present \in SUBSET (Keys \ {bad}) :
        disk = PartlyInvalidFile(bad, present) =>
            \A k \in Keys :
                state.settings[k] =
                    IF k \in present THEN ValidSetting[k]
                                     ELSE DocumentedDefaults[k]

\* ------------------------------------------------------------------------
\* C16
\* ------------------------------------------------------------------------

\* The mutation of command c, as settings s hold it.
MutationApplied(c, s) ==
    CASE c.cmd = "set_theme" -> s.theme = c.arg.theme
      [] c.cmd = "set_font_size" ->
            s.font_size = Min(32, IF c.arg.size < 8 THEN 8 ELSE c.arg.size)
      [] c.cmd = "set_word_wrap" -> s.word_wrap = c.arg.enabled
      [] c.cmd = "save_window_size" ->
            s.window_width = c.arg.width /\ s.window_height = c.arg.height
      [] c.cmd = "save_window_position" ->
            s.window_x = Some(c.arg.x) /\ s.window_y = Some(c.arg.y)
      [] c.cmd = "add_recent_file" ->
            s.recent_files # <<>> /\ s.recent_files[1] = Unwrap(c.path)
      [] c.cmd = "clear_recent_files" -> s.recent_files = <<>>
      [] c.cmd = "force_close" ->
            /\ s.window_width = Unwrap(c.geom).width
            /\ s.window_height = Unwrap(c.geom).height
            /\ s.window_x = Some(Unwrap(c.geom).x)
            /\ s.window_y = Some(Unwrap(c.geom).y)
      [] OTHER -> TRUE

\* The result command c returns when nothing fails, given the settings s it
\* leaves.
NormalResult(c, s, r) ==
    /\ r.cmd = c.cmd
    /\ r.error = <<>>
    /\ CASE c.cmd = "set_theme" ->
                r.kind = "success" /\ r.value = [theme |-> c.arg.theme]
         [] c.cmd = "set_font_size" ->
                r.kind = "success" /\ r.value = [font_size |-> s.font_size]
         [] c.cmd = "set_word_wrap" ->
                r.kind = "success" /\ r.value = [word_wrap |-> c.arg.enabled]
         [] c.cmd = "toggle_word_wrap" ->
                r.kind = "success" /\ r.value = [word_wrap |-> s.word_wrap]
         [] OTHER -> r.kind = "unit"

\* C16: whether the write of settings.json succeeds or fails, the step that
\* ends a command's save leaves the in-memory state with the command's
\* mutation applied and (force_close, which goes on to destroy the window,
\* apart) returns the command's normal result without an error; and every
\* successful write, those after a failed one included, leaves the file
\* holding the complete current in-memory settings.
C16_BestEffortPersistence ==
    [][ \A c \in InProgress :
          (locked /\ ~locked' /\ c.pc = c.cmd \o ".write") =>
              /\ state' = state
              /\ MutationApplied(c, state'.settings)
              /\ c.cmd # "force_close" =>
                    Returned(c) /\ NormalResult(c, state'.settings, ret')
              /\ last_save' \in {"ok", "failed"}
              /\ last_save' = "ok" => disk' = to_string_pretty(state'.settings)
      ]_vars

\* The save of set_font_size(100) failed: the command returned 32, the
\* settings in memory hold 32 and settings.json does not; a set_theme that
\* followed is about to write.
C16_Witness ==
    /\ last_save = "failed"
    /\ ret.cmd = "set_font_size" /\ ret.kind = "success"
    /\ ret.value = [font_size |-> 32]
    /\ state.settings.font_size = 32
    /\ load_settings(disk).font_size # 32
    /\ \E c \in InProgress : c.pc = "set_theme.write"

\* ------------------------------------------------------------------------
\* C17
\* ------------------------------------------------------------------------

\* The commands that change current_file or modified, and the results with
\* which they do.
ChangesSession(r) ==
    /\ r.cmd \in {"new_file", "open_file", "open_recent_file", "save_file",
                  "save_file_as", "set_current_file", "set_modified",
                  "get_startup_file"}
    /\ r.kind \in {"success", "unit", "some"}

\* The base name of a path.
BaseName(p) == p[Len(p)]

\* C17: on the step that completes new_file, a successful open, save or
\* save-as, set_current_file, set_modified or a get_startup_file that opens
\* the file, the window title is "Quill - ", then the base name of
\* current_file or "Untitled" without one, then "*" exactly when modified is
\* true; after set_modified(true) it ends with the marker, and after a
\* successful open or save it is "Quill - " and the base name of the path
\* returned, without the marker.
C17_TitleFollowsState ==
    [][ \A c \in InProgress :
          (Returned(c) /\ ret'.cmd = c.cmd /\ ChangesSession(ret')) =>
              LET name == IF state'.current_file = None
                          THEN "Untitled"
                          ELSE BaseName(Unwrap(state'.current_file))
              IN  /\ title' = Some("Quill - " \o name
                                   \o (IF state'.modified THEN "*" ELSE ""))
                  /\ (c.cmd = "set_modified" /\ c.flag) =>
                        title' = Some("Quill - " \o name \o "*")
                  /\ c.cmd \in {"open_file", "open_recent_file", "save_file",
                                "save_file_as", "get_startup_file"} =>
                        title' = Some("Quill - " \o BaseName(Unwrap(ret'.path)))
      ]_vars

\* set_modified(true) has returned with a current file: the title names the
\* file and ends with the marker.
C17_Witness ==
    /\ ret.cmd = "set_modified"
    /\ state.modified
    /\ state.current_file = Some(PathA)
    /\ title = Some("Quill - " \o BaseName(PathA) \o "*")

\* ------------------------------------------------------------------------
\* C18
\* ------------------------------------------------------------------------

\* Invocation c takes a step.
Steps(c) == CopiesIn(c, inflight') < CopiesIn(c, inflight)

\* C18: a save_file that finds current_file = P goes on to write P, with no
\* dialog; one that finds no current file goes to the dialog save_file_as
\* starts with, and changes nothing by that; a dialog that is cancelled ends
\* the command with the cancelled result and changes neither the session nor
\* the settings; and the save that succeeded at path P returns success with P
\* and leaves current_file = P, modified = false and P first of recent_files.
C18_SaveFile ==
    [][ \A c \in InProgress :
          (c.cmd = "save_file" /\ Steps(c)) =>
              /\ (c.pc = "save_file.lock" /\ IsSome(state.current_file)) =>
                    /\ Goto(c, [c EXCEPT !.pc = "save_to_path.fswrite",
                                         !.path = state.current_file])
                    /\ state' = state /\ ret' = ret
              /\ (c.pc = "save_file.lock" /\ ~IsSome(state.current_file)) =>
                    /\ Goto(c, At(c, Entry("save_file_as")))
                    /\ state' = state /\ ret' = ret
              /\ (c.pc = "save_file_as.dialog" /\ Returned(c)) =>
                    /\ ret'.kind = "cancelled" /\ ret'.cmd = "save_file"
                    /\ state' = state
                    /\ disk' = disk
                    /\ title' = title
              /\ (c.pc = "save_to_path.write" /\ Returned(c)) =>
                    /\ ret'.kind = "success" /\ ret'.path = c.path
                    /\ state'.current_file = c.path
                    /\ ~state'.modified
                    /\ state'.settings.recent_files[1] = Unwrap(c.path)
                    /\ Occurrences(state'.settings.recent_files,
                                   Unwrap(c.path)) = 1
      ]_vars

\* save_file has succeeded at the file set_current_file had made the current
\* one: it is the current file, unmodified and first of the recent files.
C18_Witness ==
    /\ started = 2 /\ inflight = EmptyBag
    /\ ret.cmd = "save_file" /\ ret.kind = "success" /\ ret.path = Some(PathB)
    /\ state.current_file = Some(PathB)
    /\ ~state.modified
    /\ state.settings.recent_files[1] = PathB
    /\ Len(state.settings.recent_files) > 1

\* ------------------------------------------------------------------------
\* C19
\* ------------------------------------------------------------------------

\* C19: set_current_file is two steps at most, the assignment under the lock
\* and the save of the settings, and none that reads or writes the document.
\* With a path p, for any p, the assignment makes p the current file,
\* unmodified, and the first of the recent files, and the save that follows
\* writes these settings and returns success with p; with no path the
\* assignment leaves no current file, unmodified, the settings in memory and
\* settings.json as they were, and returns success.
C19_SetCurrentFile ==
    [][ \A c \in InProgress :
          (c.cmd = "set_current_file" /\ Steps(c)) =>
              /\ c.pc \in {"set_current_file.lock", "set_current_file.write"}
              /\ (c.pc = "set_current_file.lock" /\ IsSome(c.path)) =>
                    /\ Moved(c, "set_current_file.lock", "set_current_file.write")
                    /\ state'.current_file = c.path
                    /\ ~state'.modified
                    /\ state'.settings.recent_files[1] = Unwrap(c.path)
                    /\ Without(state'.settings.recent_files, Unwrap(c.path))
                         = SubSeq(Without(state.settings.recent_files,
                                          Unwrap(c.path)),
                                  1, Len(state'.settings.recent_files) - 1)
              /\ c.pc = "set_current_file.write" =>
                    /\ Returned(c)
                    /\ ret'.kind = "success" /\ ret'.path = c.path
                    /\ state' = state
                    /\ state'.current_file = c.path /\ ~state'.modified
                    /\ last_save' = "ok" =>
                          disk' = to_string_pretty(state'.settings)
              /\ (c.pc = "set_current_file.lock" /\ ~IsSome(c.path)) =>
                    /\ Returned(c)
                    /\ ret'.kind = "success" /\ ret'.path = None
                    /\ state'.current_file = None
                    /\ ~state'.modified
                    /\ state'.settings = state.settings
                    /\ disk' = disk
                    /\ last_save' = last_save
      ]_vars

\* set_current_file(p) has returned as the second command: the title names
\* p without the marker, p is the current file, unmodified, and first of the
\* recent files in memory and in settings.json.
C19_Witness ==
    /\ started = 2 /\ inflight = EmptyBag
    /\ ret.cmd = "set_current_file" /\ ret.path = Some(PathB)
    /\ title = Some("Quill - b.md")
    /\ state.current_file = Some(PathB)
    /\ ~state.modified
    /\ state.settings.recent_files[1] = PathB
    /\ last_save = "ok"
    /\ persisted_recent(disk) = state.settings.recent_files

\* ------------------------------------------------------------------------
\* C20
\* ------------------------------------------------------------------------

\* The window geometry settings s hold.
GeometryOf(s) ==
    [ width |-> s.window_width, height |-> s.window_height,
      x |-> s.window_x, y |-> s.window_y ]

\* The geometry g as Settings store it.
Stored(g) ==
    [ width |-> g.width, height |-> g.height, x |-> Some(g.x), y |-> Some(g.y) ]

\* C20, as stated: when a force_close that read the window's geometry
\* destroys the window, settings.json (the last write of which succeeded)
\* holds that geometry.
C20_PersistedGeometryOnceGone ==
    [][ \A c \in InProgress :
          (c.pc = "force_close.destroy" /\ Steps(c) /\ IsSome(c.geom)
              /\ last_save = "ok") =>
              /\ ~window'
              /\ GeometryOf(load_settings(disk')) = Stored(Unwrap(c.geom))
      ]_vars

\* C20, amended: force_close without the window ends at once and changes
\* nothing; with the window it reads the geometry and, if that can be read,
\* stores it in Settings and saves them in one critical section, in steps that
\* leave the window as it is: at the end of its save the settings in memory
\* hold the geometry read, and so does settings.json if the write succeeded.
\* Only then, or at once when the geometry cannot be read, does it destroy
\* the window, in a step that changes neither the settings nor settings.json
\* and starts no handler.
C20_SaveThenDestroy ==
    [][ \A c \in InProgress :
          (c.cmd = "force_close" /\ Steps(c)) =>
              /\ (c.pc = "force_close.window" /\ ~window) =>
                    Returned(c) /\ UNCHANGED <<state, disk, window>>
              /\ (c.pc = "force_close.window" /\ window) =>
                    /\ \/ /\ Moved(c, "force_close.window", "force_close.lock")
                          /\ \E d \in BagToSet(inflight') :
                                d.pc = "force_close.lock" /\ IsSome(d.geom)
                       \/ Moved(c, "force_close.window", "force_close.destroy")
                    /\ UNCHANGED <<state, disk, window>>
              /\ c.pc = "force_close.lock" =>
                    /\ Moved(c, "force_close.lock", "force_close.write")
                    /\ GeometryOf(state'.settings) = Stored(Unwrap(c.geom))
                    /\ UNCHANGED <<disk, window>>
              /\ c.pc = "force_close.write" =>
                    /\ Moved(c, "force_close.write", "force_close.destroy")
                    /\ GeometryOf(state'.settings) = Stored(Unwrap(c.geom))
                    /\ last_save' = "ok" =>
                          /\ disk' = to_string_pretty(state'.settings)
                          /\ GeometryOf(load_settings(disk'))
                                = Stored(Unwrap(c.geom))
                    /\ UNCHANGED <<state, window>>
              /\ c.pc = "force_close.destroy" =>
                    /\ ~window'
                    /\ Returned(c)
                    /\ UNCHANGED <<state, disk, started>>
              /\ c.pc \in { "force_close.window", "force_close.lock",
                            "force_close.write", "force_close.destroy" }
      ]_vars

\* force_close has saved the geometry it read and destroyed the window:
\* settings.json holds that geometry.
C20_Witness ==
    /\ ~window
    /\ inflight = EmptyBag
    /\ ret.cmd = "force_close"
    /\ last_save = "ok"
    /\ GeometryOf(load_settings(disk))
          = [width |-> 1280, height |-> 720, x |-> Some(-8), y |-> Some(0)]
    /\ GeometryOf(state.settings) = GeometryOf(load_settings(disk))

\* ------------------------------------------------------------------------
\* C21
\* ------------------------------------------------------------------------

\* The positions at which a command waits for the user to answer a dialog.
DialogPcs == {"open_file.dialog", "save_file_as.dialog"}

\* The positions at which a command reads or writes the document.
DocumentPcs ==
    { "open_file.read", "open_recent_file.read", "get_startup_file.read",
      "save_to_path.fswrite" }

\* The positions at which a command asks for the mutex.
LockPcs ==
    { "new_file.lock", "open_file.lock", "open_recent_file.lock",
      "open_recent_file.stale_lock", "save_file.lock", "save_to_path.lock",
      "set_current_file.lock", "get_file_state.lock", "set_modified.lock",
      "add_recent_file.lock", "clear_recent_files.lock",
      "get_startup_file.lock", "get_startup_file.lock2" }

\* The positions at which a command holds the mutex: between the mutation and
\* the end of save_settings.
HoldPcs ==
    { "open_file.write", "open_recent_file.write",
      "open_recent_file.stale_write", "save_to_path.write",
      "set_current_file.write", "add_recent_file.write",
      "clear_recent_files.write", "get_startup_file.write" }

\* The process started on a config directory without settings.json: what the
\* file holds has no part in who takes the mutex.
InitFair == \E arg \in LaunchArgs : InitWith(FileMissing, arg)

\* A step of a command that is not waiting for the user.
Progress ==
    /\ Next
    /\ \E c \in InProgress : c.pc \notin DialogPcs /\ Steps(c)

\* The scheduler runs every handler thread that can take a step; the user may
\* leave a dialog open for ever.
SpecFair == InitFair /\ [][Next]_vars /\ WF_vars(Progress)

\* The number of invocations at one of the positions pcs.
CountAt(pcs) ==
    LET at == {c \in InProgress : c.pc \in pcs}
        sum[S \in SUBSET at] ==
            IF S = {} THEN 0
            ELSE LET c == CHOOSE x \in S : TRUE
                 IN  CopiesIn(c, inflight) + sum[S \ {c}]
    IN  sum[at]

\* C21: every command in progress is waiting for a dialog, reading or writing
\* the document, asking for the mutex or holding it; the mutex is held by
\* exactly one command at a holding position when it is taken and by none
\* when it is free, so no command that asks for it holds it and none holds it
\* in a dialog or in document I/O; a command that holds it can always take
\* its step; and under fair scheduling the system comes to rest with the
\* mutex free and nothing in progress but commands whose dialog has not
\* returned.
C21_NoDeadlock ==
    /\ [](\A c \in InProgress :
               c.pc \in DialogPcs \cup DocumentPcs \cup LockPcs \cup HoldPcs)
    /\ [](CountAt(HoldPcs) = IF locked THEN 1 ELSE 0)
    /\ []((\E c \in InProgress : c.pc \notin DialogPcs) => ENABLED Progress)
    /\ <>[](~locked /\ \A c \in InProgress : c.pc \in DialogPcs)

\* save_file has dropped the guard of its first lock and asks for the mutex
\* again in save_to_path while get_startup_file, which has dropped its first
\* guard too, holds it.
C21_Witness ==
    /\ locked
    /\ \E c \in InProgress :
          c.cmd = "save_file" /\ c.pc = "save_to_path.lock"
    /\ \E d \in InProgress :
          d.cmd = "get_startup_file" /\ d.pc = "get_startup_file.write"

====
